---- MODULE Spec2Model ----
(***************************************************************************)
(* Bruno voice pipeline: the plan validator (validate_or_fix, four         *)
(* variants; SpecV), the wake/command controller loop (main of             *)
(* bruno_stage3_bridge.py; Spec, SpecFair, and SpecP with the main loops   *)
(* of the two Vosk programs), one audio capture (record_utterance and the  *)
(* Vosk stream loops; SpecR, SpecRFair) and strip_wake (SpecT).            *)
(*                                                                         *)
(* JSON values are tagged records so that values of different Python types *)
(* stay comparable: an atom is [k, s, n] with k the Python type, s the     *)
(* string payload and n the numeric payload.  Numbers are fixed point with *)
(* one decimal: the model number n stands for n/10 (hz 0.1 is 1, hz 30 is  *)
(* 300, duration_ms 1500 is 15000).  Python compares int and float by      *)
(* value and jsonschema accepts 1500.0 as an integer, so the int/float     *)
(* distinction is not kept.  NaN and infinities are not modelled.          *)
(***************************************************************************)
EXTENDS Integers, Sequences, FiniteSets, TLC

VARIABLES
    \* validator harness
    vpc, variant, vin, vout, vout2,
    \* controller loop (main)
    pc, now, last_wake_ts, wake_text, cmd, plan, wakes, exc, prog, llm, esp, sends, heard, calls,
    \* one capture (record_utterance, _stream_text, _rec_stream)
    capture, rpc, clock, device, due, produced, q, chunk, buf, silent_run, waited, lag, reason, last_elapsed, recognized,
    \* one call of strip_wake
    tpc, tvariant, tin, tout, tout2

vvars == <<vpc, variant, vin, vout, vout2>>
cvars == <<pc, now, last_wake_ts, wake_text, cmd, plan, wakes, exc, prog, llm, esp, sends, heard, calls>>
rvars == <<capture, rpc, clock, device, due, produced, q, chunk, buf, silent_run, waited, lag, reason, last_elapsed, recognized>>
tvars == <<tpc, tvariant, tin, tout, tout2>>
vars == <<vpc, variant, vin, vout, vout2, pc, now, last_wake_ts, wake_text, cmd, plan, wakes, exc, prog, llm, esp, sends, heard, calls, capture, rpc, clock, device, due, produced, q, chunk, buf, silent_run, waited, lag, reason, last_elapsed, recognized, tpc, tvariant, tin, tout, tout2>>

----------------------------------------------------------------------------
(* Bounds of the model *)

\* longest effects list given to the validator (the schema allows 5)
MaxLen == 6

----------------------------------------------------------------------------
(* JSON atoms *)

Atom(k, s, n) == [k |-> k, s |-> s, n |-> n]
Absent == Atom("absent", "", 0)
Null == Atom("null", "", 0)
ListV == Atom("list", "", 0)
Str(s) == Atom("str", s, 0)
Num(n) == Atom("num", "", n)
BoolV(b) == Atom("bool", "", IF b THEN 1 ELSE 0)

\* BRUNO_SCHEMA enumerations and ranges (numbers in tenths)
Parts == {"tail", "head", "left_ear", "right_ear", "left_eye", "right_eye", "chest", "back", "left_leg", "right_leg"}
Modes == {"on", "off", "blink", "pulse", "wag", "chase"}
HZ_MIN == 1
HZ_MAX == 300
DUTY_MIN == 0
DUTY_MAX == 10
DUR_MIN == 500
DUR_MAX == 600000
MIN_ITEMS == 1
MAX_ITEMS == 5
\* defaults of the repair loop
HZ_DEFAULT == 60
DUTY_DEFAULT == 5
DUR_DEFAULT == 15000

\* an element of effects: a dict with the five known keys (Absent when the
\* key is missing) and a flag for any other key, or a non-dict value
Effect(part, mode, hz, duty, dur, extra) == [k |-> "dict", part |-> part, mode |-> mode, hz |-> hz, duty |-> duty, duration_ms |-> dur, extra |-> extra]
NonDictElem(k) == [k |-> k, part |-> Absent, mode |-> Absent, hz |-> Absent, duty |-> Absent, duration_ms |-> Absent, extra |-> FALSE]

\* the value under "effects": k is its Python type ("absent" when the key is
\* missing); items is what iterating it yields (list elements, dict keys,
\* string characters)
Effects(k, items) == [k |-> k, items |-> items]
EffectList(items) == Effects("list", items)

\* a plan: a dict with intent, effects and a flag for any other key, or a
\* non-dict value
Plan(intent, effects, extra) == [k |-> "dict", intent |-> intent, effects |-> effects, extra |-> extra]
NonDictPlan(k) == [k |-> k, intent |-> Absent, effects |-> Effects("absent", <<>>), extra |-> FALSE]

\* the result of a call: exc = "" and the returned value, or the exception raised
Ret(p) == [exc |-> "", plan |-> p]
Raise(e) == [exc |-> e, plan |-> NonDictPlan("null")]

FALLBACK_PLAN == Plan(Str("EMOTE_OR_ACTION"), EffectList(<<Effect(Str("tail"), Str("wag"), Num(60), Absent, Num(15000), FALSE)>>), FALSE)

----------------------------------------------------------------------------
(* jsonschema.validate(instance, BRUNO_SCHEMA) *)

InRange(a, lo, hi) == a.k = "num" /\ lo <= a.n /\ a.n <= hi
IsInteger(a) == a.k = "num" /\ a.n % 10 = 0

EffectValid(e) ==
    /\ e.k = "dict"
    /\ ~e.extra
    /\ e.part.k = "str" /\ e.part.s \in Parts
    /\ e.mode.k = "str" /\ e.mode.s \in Modes
    /\ e.hz.k = "absent" \/ InRange(e.hz, HZ_MIN, HZ_MAX)
    /\ e.duty.k = "absent" \/ InRange(e.duty, DUTY_MIN, DUTY_MAX)
    /\ e.duration_ms.k = "absent" \/ (IsInteger(e.duration_ms) /\ InRange(e.duration_ms, DUR_MIN, DUR_MAX))

SchemaValid(p) ==
    /\ p.k = "dict"
    /\ ~p.extra
    /\ p.intent.k = "str"
    /\ p.effects.k = "list"
    /\ Len(p.effects.items) >= MIN_ITEMS
    /\ Len(p.effects.items) <= MAX_ITEMS
    /\ \A i \in 1..Len(p.effects.items) : EffectValid(p.effects.items[i])

----------------------------------------------------------------------------
(* Python conversions used by the repair loop; each returns [exc, n] *)

Ok(n) == [exc |-> "", n |-> n]
Err(e) == [exc |-> e, n |-> 0]

\* the numeric strings of the model and what float() makes of them
FloatOfStr(s) == IF s = "7" THEN Ok(70) ELSE IF s = "7.5" THEN Ok(75) ELSE Err("ValueError")
\* int() of a string accepts only integer literals
IntOfStr(s) == IF s = "7" THEN Ok(70) ELSE Err("ValueError")

\* truncation toward zero, in tenths
Trunc(n) == IF n >= 0 THEN (n \div 10) * 10 ELSE 0 - (((0 - n) \div 10) * 10)

float(a) ==
    IF a.k = "num" THEN Ok(a.n)
    ELSE IF a.k = "bool" THEN Ok(a.n * 10)
    ELSE IF a.k = "str" THEN FloatOfStr(a.s)
    ELSE Err("TypeError")

int(a) ==
    IF a.k = "num" THEN Ok(Trunc(a.n))
    ELSE IF a.k = "bool" THEN Ok(a.n * 10)
    ELSE IF a.k = "str" THEN IntOfStr(a.s)
    ELSE Err("TypeError")

Min2(a, b) == IF b < a THEN b ELSE a
Max2(a, b) == IF b > a THEN b ELSE a
clamp(v, lo, hi) == Min2(Max2(v, lo), hi)

\* e.get(key, default)
get(a, default) == IF a.k = "absent" THEN default ELSE a

\* x = e.get(key, d); x = x if x in allowed else d
\* (membership in a set hashes x: a list or dict raises TypeError)
choose_enum(a, allowed, default) ==
    LET x == get(a, Str(default)) IN
    IF x.k \in {"list", "dict"} THEN [exc |-> "TypeError", s |-> ""]
    ELSE IF x.k = "str" /\ x.s \in allowed THEN [exc |-> "", s |-> x.s]
    ELSE [exc |-> "", s |-> default]

\* repair_effect with duty copied through instead of defaulted and clamped
repair_effect_keeps_duty(e) ==
    IF e.k # "dict" THEN [exc |-> "AttributeError", eff |-> e]
    ELSE
    LET part == choose_enum(e.part, Parts, "tail")
        mode == choose_enum(e.mode, Modes, "wag")
        hz == float(get(e.hz, Num(HZ_DEFAULT)))
        dur == int(get(e.duration_ms, Num(DUR_DEFAULT)))
    IN  IF part.exc # "" THEN [exc |-> part.exc, eff |-> e]
        ELSE IF mode.exc # "" THEN [exc |-> mode.exc, eff |-> e]
        ELSE IF hz.exc # "" THEN [exc |-> hz.exc, eff |-> e]
        ELSE IF dur.exc # "" THEN [exc |-> dur.exc, eff |-> e]
        ELSE [exc |-> "", eff |->
                Effect(Str(part.s), Str(mode.s),
                       Num(clamp(hz.n, HZ_MIN, HZ_MAX)),
                       e.duty,
                       Num(clamp(dur.n, DUR_MIN, DUR_MAX)), FALSE)]

\* the repaired effect is the input dict updated in place: other keys stay
repair_effect_keeps_extra(e) ==
    IF e.k # "dict" THEN [exc |-> "AttributeError", eff |-> e]
    ELSE
    LET part == choose_enum(e.part, Parts, "tail")
        mode == choose_enum(e.mode, Modes, "wag")
        hz == float(get(e.hz, Num(HZ_DEFAULT)))
        duty == float(get(e.duty, Num(DUTY_DEFAULT)))
        dur == int(get(e.duration_ms, Num(DUR_DEFAULT)))
    IN  IF part.exc # "" THEN [exc |-> part.exc, eff |-> e]
        ELSE IF mode.exc # "" THEN [exc |-> mode.exc, eff |-> e]
        ELSE IF hz.exc # "" THEN [exc |-> hz.exc, eff |-> e]
        ELSE IF duty.exc # "" THEN [exc |-> duty.exc, eff |-> e]
        ELSE IF dur.exc # "" THEN [exc |-> dur.exc, eff |-> e]
        ELSE [exc |-> "", eff |->
                Effect(Str(part.s), Str(mode.s),
                       Num(clamp(hz.n, HZ_MIN, HZ_MAX)),
                       Num(clamp(duty.n, DUTY_MIN, DUTY_MAX)),
                       Num(clamp(dur.n, DUR_MIN, DUR_MAX)), e.extra)]

\* one pass of the for loop body: [exc, eff]
repair_effect(e) ==
    IF e.k # "dict" THEN [exc |-> "AttributeError", eff |-> e]
    ELSE
    LET part == choose_enum(e.part, Parts, "tail")
        mode == choose_enum(e.mode, Modes, "wag")
        hz == float(get(e.hz, Num(HZ_DEFAULT)))
        duty == float(get(e.duty, Num(DUTY_DEFAULT)))
        dur == int(get(e.duration_ms, Num(DUR_DEFAULT)))
    IN  IF part.exc # "" THEN [exc |-> part.exc, eff |-> e]
        ELSE IF mode.exc # "" THEN [exc |-> mode.exc, eff |-> e]
        ELSE IF hz.exc # "" THEN [exc |-> hz.exc, eff |-> e]
        ELSE IF duty.exc # "" THEN [exc |-> duty.exc, eff |-> e]
        ELSE IF dur.exc # "" THEN [exc |-> dur.exc, eff |-> e]
        ELSE [exc |-> "", eff |->
                Effect(Str(part.s), Str(mode.s),
                       Num(clamp(hz.n, HZ_MIN, HZ_MAX)),
                       Num(clamp(duty.n, DUTY_MIN, DUTY_MAX)),
                       Num(clamp(dur.n, DUR_MIN, DUR_MAX)), FALSE)]

\* the for loop over plan.get("effects", []): [exc, effs]
RECURSIVE repair_effects(_)
repair_effects(items) ==
    IF items = <<>> THEN [exc |-> "", effs |-> <<>>]
    ELSE LET h == repair_effect(Head(items)) IN
         IF h.exc # "" THEN [exc |-> h.exc, effs |-> <<>>]
         ELSE LET t == repair_effects(Tail(items)) IN
              IF t.exc # "" THEN t
              ELSE [exc |-> "", effs |-> <<h.eff>> \o t.effs]

\* the except branch up to the end of the loop: the dict "fixed", or the
\* exception that leaves the function
repair(p) ==
    IF p.k # "dict" THEN Raise("AttributeError")
    ELSE IF p.effects.k \in {"null", "num", "bool"} THEN Raise("TypeError")
    ELSE LET r == repair_effects(p.effects.items) IN
         IF r.exc # "" THEN Raise(r.exc)
         ELSE Ret(Plan(get(p.intent, Str("EMOTE_OR_ACTION")), EffectList(r.effs), FALSE))

----------------------------------------------------------------------------
(* validate_or_fix, the four variants *)

\* validate_or_fix without the early return of a valid plan
validate_or_fix_always_repairs(p) ==
    LET fixed == repair(p) IN
    IF fixed.exc # "" THEN fixed
    ELSE IF fixed.plan.effects.items # <<>> THEN fixed ELSE Ret(FALLBACK_PLAN)

\* bruno_stage3_bridge.py
validate_or_fix(p) ==
    IF SchemaValid(p) THEN Ret(p)
    ELSE LET fixed == repair(p) IN
         IF fixed.exc # "" THEN fixed
         ELSE IF fixed.plan.effects.items # <<>> THEN fixed ELSE Ret(FALLBACK_PLAN)

\* bruno_wake_loop_vosk.py
validate_or_fix_wake_loop(p) ==
    IF SchemaValid(p) THEN Ret(p)
    ELSE LET fixed == repair(p) IN
         IF fixed.exc # "" THEN fixed
         ELSE IF fixed.plan.effects.items # <<>> THEN fixed ELSE Ret(FALLBACK_PLAN)

\* bruno_stage1_vosk_big_loop.py: "return fixed or FALLBACK_PLAN", and a dict
\* with two keys is never falsy
validate_or_fix_big_loop(p) ==
    IF SchemaValid(p) THEN Ret(p)
    ELSE repair(p)

\* bruno_stage1_whisper.py: the repaired plan is validated again
validate_or_fix_whisper(p) ==
    IF SchemaValid(p) THEN Ret(p)
    ELSE LET r == repair(p) IN
         IF r.exc # "" THEN r
         ELSE LET fixed == IF r.plan.effects.items = <<>> THEN FALLBACK_PLAN ELSE r.plan IN
              IF SchemaValid(fixed) THEN Ret(fixed) ELSE Ret(FALLBACK_PLAN)

Variants == {"bridge", "wake_loop", "big_loop", "whisper"}

Validate(v, p) ==
    IF v = "bridge" THEN validate_or_fix(p)
    ELSE IF v = "wake_loop" THEN validate_or_fix_wake_loop(p)
    ELSE IF v = "big_loop" THEN validate_or_fix_big_loop(p)
    ELSE validate_or_fix_whisper(p)

----------------------------------------------------------------------------
(* Inputs of the validator: what json.loads can hand to validate_or_fix *)

PartVals == {Absent, Str("tail"), Str("head"), Str("nose"), Num(50), ListV}
ModeVals == {Absent, Str("wag"), Str("on"), Str("spin"), ListV}
HzVals == {Absent, Null, Str("7"), Str("fast"), BoolV(TRUE), Num(-20), Num(0), Num(1), Num(60), Num(300), Num(9990)}
DutyVals == {Absent, Null, Str("7.5"), Num(-5), Num(0), Num(5), Num(10), Num(25)}
DurVals == {Absent, Null, Str("7"), Str("7.5"), BoolV(TRUE), Num(490), Num(500), Num(15000), Num(15005), Num(600000), Num(600010)}

\* a complete valid effect, and a valid effect with only the required keys
FullEffect == Effect(Str("tail"), Str("wag"), Num(60), Num(5), Num(15000), FALSE)
MinimalEffect == Effect(Str("head"), Str("on"), Absent, Absent, Absent, FALSE)
\* the effect of the spec's repair scenario: {"part":"nose","mode":"spin","hz":999}
ScenarioEffect == Effect(Str("nose"), Str("spin"), Num(9990), Absent, Absent, FALSE)
Bases == {FullEffect, MinimalEffect}

\* every effect that differs from a base in at most one key
OneOff(b) ==
    {[b EXCEPT !.part = v] : v \in PartVals}
    \cup {[b EXCEPT !.mode = v] : v \in ModeVals}
    \cup {[b EXCEPT !.hz = v] : v \in HzVals}
    \cup {[b EXCEPT !.duty = v] : v \in DutyVals}
    \cup {[b EXCEPT !.duration_ms = v] : v \in DurVals}
    \cup {[b EXCEPT !.extra = TRUE]}

Pool == OneOff(FullEffect) \cup OneOff(MinimalEffect) \cup {ScenarioEffect, NonDictElem("str"), NonDictElem("num"), NonDictElem("null")}
SmallPool == {FullEffect, MinimalEffect, ScenarioEffect, NonDictElem("str"), [FullEffect EXCEPT !.hz = Null], [MinimalEffect EXCEPT !.duration_ms = Num(15005)]}

EffectSeqs ==
    {<<>>}
    \cup {<<e>> : e \in Pool}
    \cup {<<e1, e2>> : e1 \in Pool, e2 \in SmallPool}
    \cup {<<e1, e2>> : e1 \in SmallPool, e2 \in Pool}
    \cup UNION {[1..n -> Bases] : n \in 3..MaxLen}

\* values of "effects" that are not lists: missing, null, a number, a string
\* or a dict (iterating the last two yields characters or keys, all strings)
OtherEffects ==
    {Effects("absent", <<>>), Effects("null", <<>>), Effects("num", <<>>),
     Effects("str", <<>>), Effects("str", <<NonDictElem("str")>>),
     Effects("dict", <<>>), Effects("dict", <<NonDictElem("str")>>)}

IntentVals == {Absent, Str("X"), Num(50)}

RawPlans ==
    {Plan(i, EffectList(es), x) : i \in IntentVals, es \in EffectSeqs, x \in BOOLEAN}
    \cup {Plan(i, ef, FALSE) : i \in IntentVals, ef \in OtherEffects}
    \cup {NonDictPlan(k) : k \in {"list", "str", "num", "null"}}

----------------------------------------------------------------------------
(* Text: a string is the sequence of its characters *)

UpperChars == <<"A","B","C","D","E","F","G","H","I","J","K","L","M","N","O","P","Q","R","S","T","U","V","W","X","Y","Z">>
LowerChars == <<"a","b","c","d","e","f","g","h","i","j","k","l","m","n","o","p","q","r","s","t","u","v","w","x","y","z">>

\* str.lower()
lower_char(c) == IF \E i \in 1..26 : UpperChars[i] = c THEN LowerChars[CHOOSE i \in 1..26 : UpperChars[i] = c] ELSE c
lower(t) == [i \in 1..Len(t) |-> lower_char(t[i])]

\* w in t
is_in(w, t) == \E i \in 0..(Len(t) - Len(w)) : SubSeq(t, i + 1, i + Len(w)) = w

\* t.replace(w, ""): the non-overlapping occurrences, leftmost first
RECURSIVE remove_all(_, _)
remove_all(t, w) ==
    IF Len(t) < Len(w) THEN t
    ELSE IF SubSeq(t, 1, Len(w)) = w THEN remove_all(SubSeq(t, Len(w) + 1, Len(t)), w)
    ELSE <<t[1]>> \o remove_all(Tail(t), w)

\* t.strip(chars)
RECURSIVE lstrip(_, _)
lstrip(t, chars) == IF t # <<>> /\ t[1] \in chars THEN lstrip(Tail(t), chars) ELSE t
RECURSIVE rstrip(_, _)
rstrip(t, chars) == IF t # <<>> /\ t[Len(t)] \in chars THEN rstrip(SubSeq(t, 1, Len(t) - 1), chars) ELSE t
strip(t, chars) == rstrip(lstrip(t, chars), chars)

\* len(t.split()): the number of maximal runs of non-space characters
word_count(t) == Cardinality({i \in 1..Len(t) : t[i] # " " /\ (i = 1 \/ t[i - 1] = " ")})

WAKE_WORDS == <<<<"h", "e", "y", " ", "b", "r", "u", "n", "o">>, <<"h", "i", " ", "b", "r", "u", "n", "o">>, <<"o", "k", "a", "y", " ", "b", "r", "u", "n", "o">>, <<"t", "o", "m", "m", "y">>, <<"c", "h", "a", "r", "l", "i", "e">>, <<"b", "r", "u", "n", "o">>>>
WAKE_DEBOUNCE_S == 20
DEFAULT_CMD == <<"w", "a", "g", " ", "y", "o", "u", "r", " ", "t", "a", "i", "l">>

contains_wake(text) ==
    LET t == lower(text) IN \E i \in 1..Len(WAKE_WORDS) : is_in(WAKE_WORDS[i], t)

RECURSIVE strip_wake_from(_, _)
strip_wake_from(t, i) == IF i > Len(WAKE_WORDS) THEN t ELSE strip_wake_from(remove_all(t, WAKE_WORDS[i]), i + 1)
strip_wake(text) == strip(strip_wake_from(lower(text), 1), {" ", ",", ".", "?", "!"})

\* transcribe_audio: "" when the capture is empty, else the recognizer's
\* text stripped of white space and lower-cased
transcribe_audio(raw) == lower(strip(raw, {" "}))

\* a dropped match moves the timestamp
ts_after_drop_extends(t, last) == t
\* lines 232-234: a debounced match leaves last_wake_ts as it is
ts_after_drop(t, last) == last

\* one residual word is taken as an inline command
inline_enough_one_word(cmd_inline) == word_count(cmd_inline) >= 1
\* line 239: if len(cmd_inline.split()) >= 2
inline_enough(cmd_inline) == word_count(cmd_inline) >= 2

\* a failed send leaves the loop
after_send_failure_raises(ok) == IF ok THEN "sleep" ELSE "crashed"
\* lines 258-265: after the send, failed or not, the loop goes on to the sleep
after_send(ok) == "sleep"

\* the recognizer is run on an empty capture as well
audio_is_empty_never(frames) == FALSE
\* lines 170-171, 179: record_utterance returns an array of size 0 for an
\* empty buf, and transcribe_audio tests audio.size == 0
audio_is_empty(frames) == frames = <<>>

\* the debounce test with <= for <
debounced_off_by_one(t, last) == t - last <= WAKE_DEBOUNCE_S
\* the debounce test left out
debounced_never(t, last) == FALSE

\* line 232: the wake is ignored as a rapid double trigger
debounced(t, last) == t - last < WAKE_DEBOUNCE_S

----------------------------------------------------------------------------
(* The controller loop: main of bruno_stage3_bridge.py.                    *)
(* Time is in tenths of a second.  The blocking calls (capture and         *)
(* recognition, planner, dispatch) take an amount of time the loop does    *)
(* not control, drawn from Steps; ReadGap is the time between the two      *)
(* clock reads of lines 232 and 235.                                       *)

\* time.time() when the loop starts (any value past the debounce window)
StartTime == 100
\* no capture of a wake utterance ends after this clock value
MaxTime == 126
\* the number of wake matches the model follows
MaxWakes == 3
Steps == {0, 6, 16}
ReadGap == {0, 1}
SLEEP_S == 4

\* what the recognizer returns for one capture
RecognizerTexts == {<<>>, <<" ", "H", "e", "y", " ", "B", "r", "u", "n", "o", ".", " ">>, <<"h", "e", "y", " ", "b", "r", "u", "n", "o", " ", "w", "a", "g", " ", "y", "o", "u", "r", " ", "t", "a", "i", "l">>, <<"g", "o", "o", "d", " ", "d", "o", "g">>, <<"B", "r", "u", "n", "o", ",", " ", "s", "i", "t", "!">>, <<"b", "l", "i", "n", "k", " ", "y", "o", "u", "r", " ", "e", "y", "e", "s">>}

\* what json.loads(content) returns in ask_llm
PlannerPlans ==
    {Plan(Str("X"), EffectList(<<FullEffect>>), FALSE),
     Plan(Str("X"), EffectList(<<MinimalEffect, FullEffect>>), FALSE),
     Plan(Str("X"), EffectList(<<ScenarioEffect>>), FALSE),
     Plan(Str("X"), EffectList([i \in 1..(MAX_ITEMS + 1) |-> FullEffect]), FALSE),
     Plan(Num(50), EffectList(<<FullEffect>>), FALSE),
     Plan(Str("X"), EffectList(<<>>), TRUE),
     Plan(Str("X"), EffectList(<<[FullEffect EXCEPT !.hz = Null]>>), FALSE),
     NonDictPlan("list")}

NoPlan == NonDictPlan("null")

\* one entry of the history of wake matches: the clock read by the debounce
\* check, whether the wake was accepted, and last_wake_ts after the check
WakeEntry(t, acc, ts) == [t |-> t, acc |-> acc, ts |-> ts]

\* a frame of audio: its number and whether its rms exceeds the energy threshold
Frame(id, speaking) == [id |-> id, speaking |-> speaking]
NoFrame == Frame(0, FALSE)

\* no capture is running
RIdle ==
    /\ capture = "record_utterance"
    /\ rpc = "idle"
    /\ clock = 0
    /\ device = "off"
    /\ due = 0
    /\ produced = 0
    /\ q = <<>>
    /\ chunk = NoFrame
    /\ buf = <<>>
    /\ silent_run = 0
    /\ waited = 0
    /\ lag = 0
    /\ reason = ""
    /\ last_elapsed = 0
    /\ recognized = ""

\* strip_wake is not being called
TIdle ==
    /\ tpc = "idle"
    /\ tvariant = "bridge"
    /\ tin = <<>>
    /\ tout = <<>>
    /\ tout2 = <<>>

CInit ==
    /\ pc = "wake"
    /\ now = StartTime
    /\ last_wake_ts = 0
    /\ wake_text = <<>>
    /\ cmd = <<>>
    /\ plan = NoPlan
    /\ wakes = <<>>
    /\ exc = ""
    /\ prog = "bridge"
    /\ llm = ""
    /\ esp = ""
    /\ sends = 0
    /\ heard = <<>>
    /\ calls = <<>>

VIdle ==
    /\ vpc = "idle"
    /\ variant = "bridge"
    /\ vin = NoPlan
    /\ vout = Raise("none")
    /\ vout2 = Raise("none")

\* lines 253, 254, 259: the functions main has called since the wake it
\* accepted, in the order of the calls
called(trace, f) == Append(trace, f)

\* the default command left out
final_cmd_no_default(c) == strip_wake(c)
\* lines 246-248: cmd = strip_wake(cmd); if not cmd: cmd = "wag your tail"
final_cmd(c) == LET x == strip_wake(c) IN IF x = <<>> THEN DEFAULT_CMD ELSE x

\* lines 228-248 for the text of a wake utterance read at time t: the three
\* "continue" tests, the accepted wake (its clock read g later), the inline
\* command
WakePhase(text, t, g) ==
    /\ wake_text' = text
    /\ LET cmd_inline == strip_wake(text) IN
       IF text = <<>> \/ ~contains_wake(text)
       THEN /\ now' = t
            /\ UNCHANGED <<pc, last_wake_ts, cmd, wakes>>
       ELSE IF debounced(t, last_wake_ts)
       THEN /\ now' = t
            /\ last_wake_ts' = ts_after_drop(t, last_wake_ts)
            /\ wakes' = Append(wakes, WakeEntry(t, FALSE, last_wake_ts'))
            /\ UNCHANGED <<pc, cmd>>
       ELSE /\ now' = t + g
            /\ last_wake_ts' = t + g
            /\ wakes' = Append(wakes, WakeEntry(t, TRUE, t + g))
            /\ IF inline_enough(cmd_inline)
               THEN pc' = "plan" /\ cmd' = final_cmd(cmd_inline)
               ELSE pc' = "cmd" /\ cmd' = <<>>
    /\ UNCHANGED <<plan, exc, prog, llm, esp, sends, heard, calls>>

\* lines 226-248 for a wake utterance: capture and recognize, then the wake
\* phase
ListenWake ==
    /\ prog = "bridge"
    /\ pc = "wake"
    /\ Len(wakes) < MaxWakes
    /\ \E raw \in RecognizerTexts, d \in Steps, g \in ReadGap :
         /\ now + d + g <= MaxTime
         /\ WakePhase(transcribe_audio(raw), now + d, g)
    /\ UNCHANGED <<vvars, rvars, tvars>>

\* lines 243-248: the command phase
ListenCommand ==
    /\ prog = "bridge"
    /\ pc = "cmd"
    /\ \E raw \in RecognizerTexts, d \in Steps :
         /\ now' = now + d
         /\ heard' = Append(heard, transcribe_audio(raw))
         /\ cmd' = final_cmd(transcribe_audio(raw))
    /\ pc' = "plan"
    /\ UNCHANGED <<last_wake_ts, wake_text, plan, wakes, exc, prog, llm, esp, sends, calls>>
    /\ UNCHANGED <<vvars, rvars, tvars>>

\* line 253, ask_llm: the request or the response fails and the exception
\* leaves main; or the content is not JSON and the fallback plan is returned;
\* or the parsed content is returned
AskLLM ==
    /\ pc = "plan"
    /\ \E d \in Steps : now' = now + d
    /\ \/ pc' = "crashed" /\ exc' = "RequestException" /\ plan' = NoPlan /\ llm' = "error"
       \/ pc' = "validate" /\ exc' = exc /\ plan' = FALLBACK_PLAN /\ llm' = "not_json"
       \/ \E p \in PlannerPlans : pc' = "validate" /\ exc' = exc /\ plan' = p /\ llm' = "plan"
    /\ calls' = called(calls, "ask_llm")
    /\ UNCHANGED <<last_wake_ts, wake_text, cmd, wakes, prog, esp, sends, heard>>
    /\ UNCHANGED <<vvars, rvars, tvars>>

\* line 254: plan = validate_or_fix(plan)
ValidatePlan ==
    /\ pc = "validate"
    /\ LET r == Validate(prog, plan) IN
         IF r.exc # ""
         THEN pc' = "crashed" /\ exc' = r.exc /\ plan' = plan
         ELSE pc' = "dispatch" /\ exc' = exc /\ plan' = r.plan
    /\ calls' = called(calls, "validate_or_fix")
    /\ UNCHANGED <<now, last_wake_ts, wake_text, cmd, wakes, prog, llm, esp, sends, heard>>
    /\ UNCHANGED <<vvars, rvars, tvars>>

\* lines 258-262: send_to_esp32(plan); a failure is printed and swallowed
Dispatch ==
    /\ prog # "big_loop"
    /\ pc = "dispatch"
    /\ \E d \in Steps : now' = now + d
    /\ \E ok \in BOOLEAN :
         /\ esp' = IF ok THEN "ok" ELSE "failed"
         /\ pc' = after_send(ok)
    /\ sends' = sends + 1
    /\ calls' = called(calls, "send_to_esp32")
    /\ UNCHANGED <<last_wake_ts, wake_text, cmd, plan, wakes, exc, prog, llm, heard>>
    /\ UNCHANGED <<vvars, rvars, tvars>>

\* line 265: time.sleep(0.4), then the next iteration
Sleep ==
    /\ pc = "sleep"
    /\ now' = now + SLEEP_S
    /\ pc' = "wake"
    /\ cmd' = <<>>
    /\ plan' = NoPlan
    /\ llm' = ""
    /\ esp' = ""
    /\ sends' = 0
    /\ heard' = <<>>
    /\ calls' = <<>>
    /\ UNCHANGED <<last_wake_ts, wake_text, wakes, exc, prog>>
    /\ UNCHANGED <<vvars, rvars, tvars>>

Init == CInit /\ VIdle /\ RIdle /\ TIdle
Next == ListenWake \/ ListenCommand \/ AskLLM \/ ValidatePlan \/ Dispatch \/ Sleep
Spec == Init /\ [][Next]_vars
\* the send returns (timeout=5) and the sleep ends
SpecFair == Spec /\ WF_vars(Dispatch) /\ WF_vars(Sleep)

----------------------------------------------------------------------------
(* The validator on its own: one input plan, one variant, applied once and *)
(* then once more to its own result                                        *)

VInit ==
    /\ vpc = "in"
    /\ variant \in Variants
    /\ vin \in RawPlans
    /\ vout = Raise("none")
    /\ vout2 = Raise("none")
    /\ CInit
    /\ RIdle
    /\ TIdle

Apply(v) ==
    /\ vpc = "in"
    /\ variant = v
    /\ vout' = Validate(v, vin)
    /\ vpc' = "once"
    /\ UNCHANGED <<variant, vin, vout2>>
    /\ UNCHANGED <<cvars, rvars, tvars>>

ApplyBridge == Apply("bridge")
ApplyWakeLoop == Apply("wake_loop")
ApplyBigLoop == Apply("big_loop")
ApplyWhisper == Apply("whisper")

\* validate_or_fix(validate_or_fix(p)): an exception of the inner call
\* leaves the expression
ApplyAgain ==
    /\ vpc = "once"
    /\ vout2' = IF vout.exc # "" THEN vout ELSE Validate(variant, vout.plan)
    /\ vpc' = "twice"
    /\ UNCHANGED <<variant, vin, vout>>
    /\ UNCHANGED <<cvars, rvars, tvars>>

VNext == ApplyBridge \/ ApplyWakeLoop \/ ApplyBigLoop \/ ApplyWhisper \/ ApplyAgain
SpecV == VInit /\ [][VNext]_vars

----------------------------------------------------------------------------
(* One audio capture: record_utterance of bruno_stage3_bridge.py,          *)
(* _stream_text of bruno_wake_loop_vosk.py, _rec_stream of                 *)
(* bruno_stage1_vosk_big_loop.py.                                          *)
(*                                                                         *)
(* clock is time.time() - start in ticks.  The sounddevice callback cb     *)
(* delivers one frame every frame_ms ticks while the device is live; the   *)
(* device can stop delivering at any moment.  The consumer loop is at the  *)
(* loop test ("test"), blocked in q.get ("get") or in the loop body with   *)
(* the frame it took ("body"), where it may fall behind by up to MaxLag    *)
(* ticks per frame.  min_s, max_s, frame_ms and silence_hold are the       *)
(* parameters of record_utterance, seconds the parameter of the two Vosk   *)
(* loops; they are given small values.                                     *)

min_s == 3
max_s == 8
frame_ms == 2
silence_hold == 5
seconds == 4
\* ticks the consumer can spend on one frame
MaxLag == 3
\* no capture is still running at this time (see Tick)
MaxClock == 2 * max_s + 2 * MaxLag + 2

Captures == {"record_utterance", "_stream_text", "_rec_stream"}

\* line 140: int(silence_hold / (frame_ms/1000.0))
silence_frames_needed == silence_hold \div frame_ms

\* q = queue.Queue(): maxsize 0, put never finds the queue full
queue_full_at_one(queue) == Len(queue) >= 1
queue_full(queue) == FALSE

\* the timeout of q.get: max_s in record_utterance, seconds in _stream_text,
\* none (-1) in _rec_stream
get_timeout(c) == IF c = "record_utterance" THEN max_s ELSE IF c = "_stream_text" THEN seconds ELSE 0 - 1

\* line 160: "if time.time() - start < min_s: pass", else the silence rule
counts_silence_always(elapsed) == TRUE
counts_silence(elapsed) == ~(elapsed < min_s)

\* only speaking frames are kept
buffered_speech_only(frames, x) == IF x.speaking THEN Append(frames, x) ELSE frames
\* line 156: buf.append(x)
buffered(frames, x) == Append(frames, x)

\* the counter counts all silent frames, consecutive or not
next_silent_run_no_reset(speaking, run) == IF speaking THEN run ELSE run + 1
\* line 163: silent_run = 0 if speaking else (silent_run + 1)
next_silent_run(speaking, run) == IF speaking THEN 0 ELSE run + 1

\* line 167: if time.time() - start > max_s: break
over_max_never(elapsed) == FALSE
over_max(elapsed) == elapsed > max_s

\* the state when the input stream has been opened
RInit ==
    /\ capture \in Captures
    /\ rpc = IF capture = "record_utterance" THEN "get" ELSE "test"
    /\ clock = 0
    /\ device = "live"
    /\ due = frame_ms
    /\ produced = 0
    /\ q = <<>>
    /\ chunk = NoFrame
    /\ buf = <<>>
    /\ silent_run = 0
    /\ waited = 0
    /\ lag = 0
    /\ reason = ""
    /\ last_elapsed = 0
    /\ recognized = ""
    /\ CInit
    /\ VIdle
    /\ TIdle

FrameDue == device = "live" /\ clock >= due

\* cb: q.put(indata.copy())
Produce ==
    /\ rpc \notin {"idle", "done"}
    /\ FrameDue
    /\ ~queue_full(q)
    /\ \E speaking \in BOOLEAN : q' = Append(q, Frame(produced + 1, speaking))
    /\ produced' = produced + 1
    /\ due' = due + frame_ms
    /\ UNCHANGED <<capture, recognized, rpc, clock, device, chunk, buf, silent_run, waited, lag, reason, last_elapsed>>
    /\ UNCHANGED <<vvars, cvars, tvars>>

\* the device stops delivering frames
DeviceStop ==
    /\ rpc \notin {"idle", "done"}
    /\ device = "live"
    /\ device' = "stopped"
    /\ UNCHANGED <<capture, recognized, rpc, clock, due, produced, q, chunk, buf, silent_run, waited, lag, reason, last_elapsed>>
    /\ UNCHANGED <<vvars, cvars, tvars>>

\* one tick of time passes: no frame is due, and the consumer is either
\* blocked on the empty queue with its timeout not yet expired or busy with
\* a frame
Tick ==
    /\ rpc \in {"get", "body"}
    /\ clock < MaxClock
    /\ ~FrameDue
    /\ rpc = "get" => (q = <<>> /\ (get_timeout(capture) >= 0 => waited < get_timeout(capture)))
    /\ rpc = "body" => lag < MaxLag
    /\ clock' = clock + 1
    /\ waited' = IF rpc = "get" THEN waited + 1 ELSE waited
    /\ lag' = IF rpc = "body" THEN lag + 1 ELSE lag
    /\ UNCHANGED <<capture, recognized, rpc, device, due, produced, q, chunk, buf, silent_run, reason, last_elapsed>>
    /\ UNCHANGED <<vvars, cvars, tvars>>

\* the loop test of the Vosk loops: while time.time() - start < seconds
Test ==
    /\ rpc = "test"
    /\ IF clock < seconds
       THEN rpc' = "get" /\ reason' = reason
       ELSE rpc' = "done" /\ reason' = "window"
    /\ waited' = 0
    /\ UNCHANGED <<capture, recognized, clock, device, due, produced, q, chunk, buf, silent_run, lag, last_elapsed>>
    /\ UNCHANGED <<vvars, cvars, tvars>>

\* q.get returns a frame
Get ==
    /\ rpc = "get"
    /\ q # <<>>
    /\ chunk' = Head(q)
    /\ q' = Tail(q)
    /\ rpc' = "body"
    /\ waited' = 0
    /\ lag' = 0
    /\ UNCHANGED <<capture, recognized, clock, device, due, produced, buf, silent_run, reason, last_elapsed>>
    /\ UNCHANGED <<vvars, cvars, tvars>>

\* q.get raises queue.Empty: break
Timeout ==
    /\ rpc = "get"
    /\ q = <<>>
    /\ get_timeout(capture) >= 0
    /\ waited >= get_timeout(capture)
    /\ rpc' = "done"
    /\ reason' = "timeout"
    /\ UNCHANGED <<capture, recognized, clock, device, due, produced, q, chunk, buf, silent_run, waited, lag, last_elapsed>>
    /\ UNCHANGED <<vvars, cvars, tvars>>

\* record_utterance, lines 155-168
BodyRecord ==
    /\ capture = "record_utterance"
    /\ rpc = "body"
    /\ buf' = buffered(buf, chunk)
    /\ LET run == IF counts_silence(clock)
                  THEN next_silent_run(chunk.speaking, silent_run)
                  ELSE silent_run
       IN  /\ silent_run' = run
           /\ IF counts_silence(clock) /\ run >= silence_frames_needed
              THEN rpc' = "done" /\ reason' = "silence"
              ELSE IF over_max(clock)
              THEN rpc' = "done" /\ reason' = "max"
              ELSE rpc' = "get" /\ reason' = reason
    /\ last_elapsed' = clock
    /\ chunk' = NoFrame
    /\ UNCHANGED <<capture, recognized, clock, device, due, produced, q, waited, lag>>
    /\ UNCHANGED <<vvars, cvars, tvars>>

\* the Vosk loops: rec.AcceptWaveform(data)
BodyStream ==
    /\ capture \in {"_stream_text", "_rec_stream"}
    /\ rpc = "body"
    /\ buf' = Append(buf, chunk)
    /\ chunk' = NoFrame
    /\ rpc' = "test"
    /\ last_elapsed' = clock
    /\ UNCHANGED <<capture, recognized, clock, device, due, produced, q, silent_run, waited, lag, reason>>
    /\ UNCHANGED <<vvars, cvars, tvars>>

\* bridge lines 170-188 and 227-248: record_utterance returns, then
\* transcribe_audio returns "" for an empty capture and the recognizer's
\* text otherwise, and main runs the wake phase on it
WakeFromCapture ==
    /\ capture = "record_utterance"
    /\ rpc = "done"
    /\ recognized = ""
    /\ pc = "wake"
    /\ \E raw \in RecognizerTexts, g \in ReadGap :
         IF audio_is_empty(buf)
         THEN recognized' = "no" /\ WakePhase(<<>>, now + clock, g)
         ELSE recognized' = "yes" /\ WakePhase(transcribe_audio(raw), now + clock, g)
    /\ UNCHANGED <<capture, rpc, clock, device, due, produced, q, chunk, buf, silent_run, waited, lag, reason, last_elapsed>>
    /\ UNCHANGED <<vvars, tvars>>

RNext == Produce \/ DeviceStop \/ Tick \/ Test \/ Get \/ Timeout \/ BodyRecord \/ BodyStream \/ WakeFromCapture
SpecR == RInit /\ [][RNext]_vars
\* time passes and both threads run
SpecRFair == SpecR /\ WF_vars(RNext)

----------------------------------------------------------------------------
(* strip_wake applied to a text and to its own result, in the three        *)
(* programs that define it: bruno_stage3_bridge.py lower-cases the text,   *)
(* bruno_wake_loop_vosk.py and bruno_stage1_vosk_big_loop.py do not, and   *)
(* the latter has its own WAKE_WORDS.                                      *)

\* the texts are made of at most MaxPieces pieces
MaxPieces == 3
Pieces == {<<"h", "e", "y", " ", "b", "r">>, <<"b", "r">>, <<"u", "n", "o">>, <<"b", "r", "u", "n", "o">>, <<"t", "o", "m">>, <<"m", "y">>, <<"h", "e", "y", " ">>, <<" ", "s", "i", "t", "!">>, <<"H", "i", " ", "B", "r", "u", "n", "o", ",", " ">>}

RECURSIVE Cat(_)
Cat(ps) == IF ps = <<>> THEN <<>> ELSE Head(ps) \o Cat(Tail(ps))
Texts == {Cat(ps) : ps \in UNION {[1..n -> Pieces] : n \in 0..MaxPieces}}

\* bruno_stage1_vosk_big_loop.py line 10
WAKE_WORDS_BIG == <<<<"h", "e", "y", " ", "b", "r", "u", "n", "o">>, <<"h", "i", " ", "b", "r", "u", "n", "o">>, <<"o", "k", "a", "y", " ", "b", "r", "u", "n", "o">>, <<"b", "r", "u", "n", "o">>>>

StripChars == {" ", ",", ".", "?", "!"}

\* for w in words: t = t.replace(w, "")
RECURSIVE remove_words(_, _, _)
remove_words(t, words, i) == IF i > Len(words) THEN t ELSE remove_words(remove_all(t, words[i]), words, i + 1)

\* wake_loop lines 197-201
strip_wake_wake_loop(text) == strip(remove_words(text, WAKE_WORDS, 1), StripChars)
\* big_loop lines 106-110
strip_wake_big_loop(text) == strip(remove_words(text, WAKE_WORDS_BIG, 1), StripChars)

TVariants == {"bridge", "wake_loop", "big_loop"}
WakeWordsOf(v) == IF v = "big_loop" THEN WAKE_WORDS_BIG ELSE WAKE_WORDS
StripWakeOf(v, text) ==
    IF v = "bridge" THEN strip_wake(text)
    ELSE IF v = "wake_loop" THEN strip_wake_wake_loop(text)
    ELSE strip_wake_big_loop(text)

TInit ==
    /\ tpc = "in"
    /\ tvariant \in TVariants
    /\ tin \in Texts
    /\ tout = <<>>
    /\ tout2 = <<>>
    /\ CInit
    /\ VIdle
    /\ RIdle

StripWake ==
    /\ tpc = "in"
    /\ tout' = StripWakeOf(tvariant, tin)
    /\ tpc' = "stripped"
    /\ UNCHANGED <<tvariant, tin, tout2>>
    /\ UNCHANGED <<vvars, cvars, rvars>>

StripAgain ==
    /\ tpc = "stripped"
    /\ tout2' = StripWakeOf(tvariant, tout)
    /\ tpc' = "again"
    /\ UNCHANGED <<tvariant, tin, tout>>
    /\ UNCHANGED <<vvars, cvars, rvars>>

TNext == StripWake \/ StripAgain
SpecT == TInit /\ [][TNext]_vars

----------------------------------------------------------------------------
(* The main loops of bruno_wake_loop_vosk.py and                           *)
(* bruno_stage1_vosk_big_loop.py, next to that of bruno_stage3_bridge.py.  *)
(* They share ask_llm, the validation step and (wake_loop) the send and    *)
(* the sleep with the bridge; big_loop prints the plan and has neither a   *)
(* debounce nor a send.                                                    *)

Progs == {"bridge", "wake_loop", "big_loop"}

\* any(w in text for w in WAKE_WORDS)
any_wake(v, text) == \E i \in 1..Len(WakeWordsOf(v)) : is_in(WakeWordsOf(v)[i], text)

\* wake_loop lines 186-192: the retry's text replaces the first when longer
longer_text(text, text2) == IF Len(text2) > Len(text) THEN text2 ELSE text

\* wake_loop lines 229-232; big_loop lines 123-124 (for a text that is not
\* empty)
vosk_cmd(v, text) ==
    LET c == IF any_wake(v, text) THEN StripWakeOf(v, text) ELSE text
    IN  IF c = <<>> THEN DEFAULT_CMD ELSE c

PInit ==
    /\ prog \in Progs
    /\ pc = "wake"
    /\ now = StartTime
    /\ last_wake_ts = 0
    /\ wake_text = <<>>
    /\ cmd = <<>>
    /\ plan = NoPlan
    /\ wakes = <<>>
    /\ exc = ""
    /\ llm = ""
    /\ esp = ""
    /\ sends = 0
    /\ heard = <<>>
    /\ calls = <<>>
    /\ VIdle
    /\ RIdle
    /\ TIdle

\* wake_loop lines 218-222, big_loop lines 117-118: hear_wake and, in
\* wake_loop, the debounce
HearWake ==
    /\ prog \in {"wake_loop", "big_loop"}
    /\ pc = "wake"
    /\ Len(wakes) < MaxWakes
    /\ \E raw \in RecognizerTexts, d \in Steps, g \in ReadGap :
         LET text == transcribe_audio(raw)
             t == now + d
         IN  /\ t + g <= MaxTime
             /\ wake_text' = text
             /\ IF ~any_wake(prog, text)
                THEN /\ now' = t
                     /\ UNCHANGED <<pc, last_wake_ts, wakes>>
                ELSE IF prog = "wake_loop" /\ debounced(t, last_wake_ts)
                THEN /\ now' = t
                     /\ last_wake_ts' = ts_after_drop(t, last_wake_ts)
                     /\ wakes' = Append(wakes, WakeEntry(t, FALSE, last_wake_ts'))
                     /\ UNCHANGED pc
                ELSE /\ now' = IF prog = "wake_loop" THEN t + g ELSE t
                     /\ last_wake_ts' = IF prog = "wake_loop" THEN t + g ELSE last_wake_ts
                     /\ wakes' = Append(wakes, WakeEntry(t, TRUE, last_wake_ts'))
                     /\ pc' = "cmd"
    /\ heard' = <<>>
    /\ UNCHANGED <<cmd, plan, exc, prog, llm, esp, sends, calls>>
    /\ UNCHANGED <<vvars, rvars, tvars>>

\* wake_loop lines 228-232 with hear_command (171-195): a second capture
\* when the first text has fewer than two words.  big_loop lines 119-124
\* with hear_command (98-104): one capture, and back to the wake when its
\* text is empty
HearCommand ==
    /\ prog \in {"wake_loop", "big_loop"}
    /\ pc = "cmd"
    /\ \E raw \in RecognizerTexts, raw2 \in RecognizerTexts, d \in Steps :
         LET text == transcribe_audio(raw)
             text2 == transcribe_audio(raw2)
         IN  /\ now' = now + d
             /\ IF prog = "wake_loop"
                THEN IF word_count(text) < 2
                     THEN /\ heard' = <<text, text2>>
                          /\ cmd' = vosk_cmd(prog, longer_text(text, text2))
                          /\ pc' = "plan"
                     ELSE /\ heard' = <<text>>
                          /\ cmd' = vosk_cmd(prog, text)
                          /\ pc' = "plan"
                ELSE /\ heard' = <<text>>
                     /\ IF text = <<>>
                        THEN cmd' = <<>> /\ pc' = "wake"
                        ELSE cmd' = vosk_cmd(prog, text) /\ pc' = "plan"
    /\ UNCHANGED <<last_wake_ts, wake_text, plan, wakes, exc, prog, llm, esp, sends, calls>>
    /\ UNCHANGED <<vvars, rvars, tvars>>

\* big_loop line 128: the validated plan is printed, then the next iteration
PrintPlan ==
    /\ prog = "big_loop"
    /\ pc = "dispatch"
    /\ pc' = "wake"
    /\ cmd' = <<>>
    /\ plan' = NoPlan
    /\ llm' = ""
    /\ heard' = <<>>
    /\ calls' = <<>>
    /\ UNCHANGED <<now, last_wake_ts, wake_text, wakes, exc, prog, esp, sends>>
    /\ UNCHANGED <<vvars, rvars, tvars>>

PNext == Next \/ HearWake \/ HearCommand \/ PrintPlan
SpecP == PInit /\ [][PNext]_vars

----------------------------------------------------------------------------
(* Properties of validate_or_fix (checked under SpecV) *)

Returned == vpc \in {"once", "twice"} /\ vout.exc = ""
OutEffects == vout.plan.effects.items
InEffects == vin.effects.items

\* an effect whose every field is within the declared bounds
WithinBounds(e) ==
    /\ e.k = "dict"
    /\ e.part.k = "str" /\ e.part.s \in Parts
    /\ e.mode.k = "str" /\ e.mode.s \in Modes
    /\ e.hz.k = "absent" \/ InRange(e.hz, 1, 300)
    /\ e.duty.k = "absent" \/ InRange(e.duty, 0, 10)
    /\ e.duration_ms.k = "absent" \/ (IsInteger(e.duration_ms) /\ InRange(e.duration_ms, 500, 600000))

\* C1: for any input, validate_or_fix never raises and returns a plan with
\* 1 to 5 effects, each with part and mode in their enumerations, hz in
\* [0.1, 30], duty in [0, 1] and duration_ms an integer in [50, 60000].
C1_Totality ==
    vpc \in {"once", "twice"} =>
        /\ vout.exc = ""
        /\ vout.plan.k = "dict"
        /\ vout.plan.effects.k = "list"
        /\ Len(OutEffects) \in 1..5
        /\ \A i \in 1..Len(OutEffects) : WithinBounds(OutEffects[i])

\* C3: a plan that already satisfies the schema is returned equal to the
\* input, unchanged.
C3_IdentityOnValid ==
    (vpc \in {"once", "twice"} /\ SchemaValid(vin)) => vout = Ret(vin)

\* a valid plan that omits the optional keys has gone through the validator
C3_Witness ==
    /\ vpc = "once"
    /\ SchemaValid(vin)
    /\ \E i \in 1..Len(InEffects) : InEffects[i].hz.k = "absent" /\ InEffects[i].duty.k = "absent"
    /\ vout.plan = vin

\* C4: for any input p, validate_or_fix(validate_or_fix(p)) is a plan and
\* equals the plan validate_or_fix(p).
C4_Idempotent ==
    vpc = "twice" => (vout.exc = "" /\ vout2.exc = "" /\ vout2.plan = vout.plan)

\* whenever the first call returns, the second returns the same plan
IdempotentWhereReturns ==
    (vpc = "twice" /\ vout.exc = "") => vout2 = vout

\* the repaired value the clamp law asks for: min(max(v, lo), hi) for a
\* number, the default for anything else
ClampLaw(a, lo, hi, default) == IF a.k = "num" THEN Num(clamp(a.n, lo, hi)) ELSE Num(default)
ClampLawInt(a, lo, hi, default) == IF a.k = "num" THEN Num(clamp(Trunc(a.n), lo, hi)) ELSE Num(default)

\* a dict whose effects is a non-empty list of dicts with string part and mode
PlainEffects(p) ==
    /\ p.k = "dict"
    /\ p.effects.k = "list"
    /\ p.effects.items # <<>>
    /\ \A i \in 1..Len(p.effects.items) :
         /\ p.effects.items[i].k = "dict"
         /\ p.effects.items[i].part.k \in {"absent", "str"}
         /\ p.effects.items[i].mode.k \in {"absent", "str"}

\* C5: in the repair path, hz, duty and duration_ms of each effect come out
\* as min(max(v, lo), hi) when the input value is numeric and as the default
\* (6, 0.5, 1500) when it is absent or not numeric.
C5_ClampLaw ==
    (vpc = "once" /\ variant = "bridge" /\ ~SchemaValid(vin) /\ PlainEffects(vin)) =>
        /\ vout.exc = ""
        /\ Len(OutEffects) = Len(InEffects)
        /\ \A i \in 1..Len(InEffects) :
             /\ OutEffects[i].hz = ClampLaw(InEffects[i].hz, 1, 300, 60)
             /\ OutEffects[i].duty = ClampLaw(InEffects[i].duty, 0, 10, 5)
             /\ OutEffects[i].duration_ms = ClampLawInt(InEffects[i].duration_ms, 500, 600000, 15000)

\* the fallback plan as the specification writes it (with duty 0.5)
SpecFallback == Plan(Str("EMOTE_OR_ACTION"), EffectList(<<Effect(Str("tail"), Str("wag"), Num(60), Num(5), Num(15000), FALSE)>>), FALSE)

\* C6: when effects is missing, not a sequence or empty, the result is
\* exactly the fixed fallback plan (tail, wag, hz 6, 1500 ms; FALLBACK_PLAN
\* of the source, or the same plan with the duty 0.5 the specification
\* writes), and no returned plan has an empty effects sequence.
C6_FallbackOnEmpty ==
    /\ (vpc = "once" /\ vin.k = "dict" /\ (vin.effects.k # "list" \/ vin.effects.items = <<>>))
          => (vout.exc = "" /\ vout.plan \in {FALLBACK_PLAN, SpecFallback})
    /\ Returned => OutEffects # <<>>

\* what the repair makes of part and mode
FixedPart(a) == IF a.k = "str" /\ a.s \in Parts THEN a ELSE Str("tail")
FixedMode(a) == IF a.k = "str" /\ a.s \in Modes THEN a ELSE Str("wag")
NumberOrAbsent(a) == a.k \in {"absent", "num"}

\* C7: a repaired plan keeps the input's intent (EMOTE_OR_ACTION if absent)
\* and has one effect per input effect, in order; a part outside the allowed
\* set becomes tail, a mode outside it becomes wag, and absent hz, duty and
\* duration_ms become 6, 0.5 and 1500.
C7_RepairShape ==
    (/\ vpc = "once"
     /\ variant \in {"bridge", "wake_loop"}
     /\ ~SchemaValid(vin)
     /\ vin.k = "dict" /\ vin.effects.k = "list" /\ InEffects # <<>>
     /\ \A i \in 1..Len(InEffects) :
          /\ InEffects[i].k = "dict"
          /\ NumberOrAbsent(InEffects[i].hz)
          /\ NumberOrAbsent(InEffects[i].duty)
          /\ NumberOrAbsent(InEffects[i].duration_ms)) =>
        /\ vout.exc = ""
        /\ vout.plan.intent = (IF vin.intent.k = "absent" THEN Str("EMOTE_OR_ACTION") ELSE vin.intent)
        /\ Len(OutEffects) = Len(InEffects)
        /\ \A i \in 1..Len(InEffects) :
             /\ OutEffects[i].part = FixedPart(InEffects[i].part)
             /\ OutEffects[i].mode = FixedMode(InEffects[i].mode)
             /\ InEffects[i].hz.k = "absent" => OutEffects[i].hz = Num(60)
             /\ InEffects[i].duty.k = "absent" => OutEffects[i].duty = Num(5)
             /\ InEffects[i].duration_ms.k = "absent" => OutEffects[i].duration_ms = Num(15000)

Populated(e) == e.hz.k # "absent" /\ e.duty.k # "absent" /\ e.duration_ms.k # "absent"

\* C8 as claimed: every effect of every returned plan has hz, duty and
\* duration_ms present, also for a valid input that omits them and for the
\* fallback plan.
C8_AlwaysPopulated ==
    Returned => \A i \in 1..Len(OutEffects) : Populated(OutEffects[i])

\* C8 as amended: every effect built by the repair loop has hz, duty and
\* duration_ms present; a valid input is returned with the keys it had; the
\* fallback plan's effect has hz and duration_ms and no duty.
C8_RepairedPopulated ==
    Returned =>
        IF SchemaValid(vin) THEN vout.plan = vin
        ELSE IF vout.plan = FALLBACK_PLAN
        THEN /\ OutEffects[1].hz = Num(60)
             /\ OutEffects[1].duration_ms = Num(15000)
             /\ OutEffects[1].duty.k = "absent"
        ELSE \A i \in 1..Len(OutEffects) : Populated(OutEffects[i])

\* the repair loop has filled in the keys an effect lacked
C8_Witness ==
    /\ vpc = "once"
    /\ ~SchemaValid(vin)
    /\ vout.exc = ""
    /\ vout.plan # FALLBACK_PLAN
    /\ \E i \in 1..Len(OutEffects) :
         /\ InEffects[i].duty.k = "absent"
         /\ OutEffects[i].duty = Num(5)
         /\ Populated(OutEffects[i])

\* the returned plan is the one the repair loop built: the input was not
\* valid and the fallback plan was not substituted
Repaired == Returned /\ ~SchemaValid(vin) /\ vout.plan # FALLBACK_PLAN

ExactlyFiveFields(e) ==
    /\ e.k = "dict"
    /\ ~e.extra
    /\ e.part.k # "absent" /\ e.mode.k # "absent"
    /\ e.hz.k # "absent" /\ e.duty.k # "absent" /\ e.duration_ms.k # "absent"

\* C21: a plan built by the repair of validate_or_fix has exactly the
\* fields intent and effects, and each of its effects exactly part, mode,
\* hz, duty and duration_ms; no other field of the input, at top level or
\* on an effect, is in any plan returned for an invalid input.
C21_RepairDropsExtras ==
    /\ Repaired =>
         /\ vout.plan.k = "dict"
         /\ vout.plan.intent.k # "absent"
         /\ vout.plan.effects.k = "list"
         /\ \A i \in 1..Len(OutEffects) : ExactlyFiveFields(OutEffects[i])
    /\ (Returned /\ ~SchemaValid(vin)) =>
         /\ ~vout.plan.extra
         /\ \A i \in 1..Len(OutEffects) : ~OutEffects[i].extra

\* an input with another field at top level and on an effect has been
\* repaired
C21_Witness ==
    /\ Repaired
    /\ vin.extra
    /\ \E i \in 1..Len(InEffects) : InEffects[i].k = "dict" /\ InEffects[i].extra
    /\ OutEffects # <<>>

----------------------------------------------------------------------------
(* Properties of the controller loop (checked under Spec) *)

\* C2: every plan handed to send_to_esp32 satisfies the full schema,
\* whatever the planner returned.
C2_DispatchedPlanValid ==
    pc = "dispatch" => SchemaValid(plan)

\* text, case-folded, contains a configured wake phrase
HasWakePhrase(text) ==
    \E i \in 1..Len(WAKE_WORDS) : is_in(WAKE_WORDS[i], lower(text))

\* the clock read by the debounce check of the step (the match is logged
\* with it; a text without wake phrase never reaches the check)
CheckTime == IF Len(wakes') > Len(wakes) THEN wakes'[Len(wakes')].t ELSE now'

\* C9: a wake is accepted at time now iff the recognized text, case-folded,
\* contains a wake phrase and now - last_wake_ts >= 2.0 s; the first wake
\* match after startup is accepted.
C9_WakeAccepted ==
    /\ [](wakes # <<>> => wakes[1].acc)
    /\ [][pc = "wake" =>
            ((pc' \in {"cmd", "plan"}) <=>
                (HasWakePhrase(wake_text') /\ CheckTime - last_wake_ts >= 20))]_vars

\* a first match was accepted, a match inside the window was dropped and a
\* match exactly at the end of the window was accepted
C9_Witness ==
    /\ Len(wakes) = 3
    /\ wakes[1].acc /\ ~wakes[2].acc /\ wakes[3].acc
    /\ wakes[3].t - wakes[1].ts = 20

LastAcceptedBefore(j) ==
    IF \E i \in 1..(j - 1) : wakes[i].acc
    THEN wakes[CHOOSE i \in 1..(j - 1) : wakes[i].acc /\ \A k \in (i + 1)..(j - 1) : ~wakes[k].acc].ts
    ELSE 0

----------------------------------------------------------------------------
(* Properties of one capture (checked under SpecR and SpecRFair) *)

AllFrames(frames, speaking) == \A i \in 1..Len(frames) : frames[i].speaking = speaking
Ended(why) == capture = "record_utterance" /\ rpc = "done" /\ reason = why

\* C11: while the elapsed time is below min_s no frame counts towards the
\* silence rule and the capture is not ended by it, whatever the frames are:
\* the run of silent frames stays 0 and a capture that ended on silence
\* ended at an elapsed time of at least min_s.
C11_MinBeforeSilence ==
    capture = "record_utterance" =>
        /\ clock < min_s => (rpc # "done" /\ silent_run = 0)
        /\ reason = "silence" => last_elapsed >= min_s

\* a capture of silent frames only that ended on silence after it had
\* ignored at least one silent frame
C11_Witness ==
    /\ Ended("silence")
    /\ AllFrames(buf, FALSE)
    /\ Len(buf) > silence_frames_needed

Duration == Len(buf) * frame_ms

\* C22: every utterance returned by record_utterance that is not empty
\* lasts at least min_s and at most max_s, whether the capture ended on
\* silence, on the ceiling or on a read timeout.
C22_DurationInRange ==
    (capture = "record_utterance" /\ rpc = "done" /\ buf # <<>>) =>
        (min_s <= Duration /\ Duration <= max_s)

\* a step of the loop body of record_utterance
BodyStep == capture = "record_utterance" /\ rpc = "body" /\ buf' # buf
EndsOnSilence == rpc' = "done" /\ reason' = "silence"

\* C23: once the elapsed time has reached min_s the counter of consecutive
\* silent frames, which starts at 0, goes up by one on a silent frame and
\* back to 0 on a speaking frame, and the capture ends on silence exactly
\* when the counter reaches silence_frames_needed; before min_s a frame
\* leaves the counter as it is and does not end the capture on silence.
C23_SilentRunCounter ==
    [][BodyStep =>
         IF clock < min_s
         THEN silent_run = 0 /\ silent_run' = 0 /\ ~EndsOnSilence
         ELSE /\ chunk.speaking => silent_run' = 0
              /\ ~chunk.speaking => silent_run' = silent_run + 1
              /\ EndsOnSilence <=> silent_run' = silence_frames_needed]_vars

\* the capture ended on silence after a speaking frame had reset a run of
\* silence that was counted
C23_Witness ==
    /\ Ended("silence")
    /\ \E i \in 1..(Len(buf) - 1) :
         /\ buf[i].id * frame_ms >= min_s
         /\ ~buf[i].speaking
         /\ buf[i + 1].speaking

\* the least number of frames that last at least hold
ceil_div(hold, frame) == (hold + frame - 1) \div frame

\* C24: the number of consecutive silent frames that ends an utterance is
\* ceil(silence_hold / frame_ms), so the silence that ends an utterance
\* lasts at least silence_hold.
C24_CeilSilenceFrames ==
    Ended("silence") =>
        /\ silent_run = ceil_div(silence_hold, frame_ms)
        /\ silent_run * frame_ms >= silence_hold

\* the number of frames taken from the queue so far
Dequeued == produced - Len(q)

\* C25: record_utterance appends every frame it reads from the queue to the
\* buffer, speaking or silent, before or after min_s, in the order read:
\* the buffer is the sequence of the frames dequeued (less the one the loop
\* body holds and has not appended yet).
C25_BufferIsDequeued ==
    /\ [](capture = "record_utterance" =>
            /\ Len(buf) = Dequeued - (IF rpc = "body" THEN 1 ELSE 0)
            /\ \A i \in 1..Len(buf) : buf[i].id = i)
    /\ [][capture = "record_utterance" =>
            IF rpc = "body" /\ rpc' # "body"
            THEN buf' = Append(buf, chunk)
            ELSE buf' = buf]_vars

\* a returned buffer that starts with a silent frame, followed by a
\* speaking frame, and ends with a silent frame
C25_Witness ==
    /\ capture = "record_utterance"
    /\ rpc = "done"
    /\ Len(buf) >= 3
    /\ ~buf[1].speaking
    /\ buf[2].speaking
    /\ ~buf[Len(buf)].speaking

\* C26: a capture that ends with an empty buffer yields an empty utterance
\* and no error; transcribe_audio returns the empty text without running
\* the recognizer, and the controller, in its wake phase, goes back to
\* capture with no wake accepted and the wake timestamp as it was.
C26_EmptyCapture ==
    (capture = "record_utterance" /\ recognized # "" /\ buf = <<>>) =>
        /\ recognized = "no"
        /\ wake_text = <<>>
        /\ exc = ""
        /\ pc = "wake"
        /\ wakes = <<>>
        /\ last_wake_ts = 0
        /\ cmd = <<>>

\* the read timed out with nothing buffered and the wake phase has run
C26_Witness ==
    /\ Ended("timeout")
    /\ buf = <<>>
    /\ recognized = "no"
    /\ now > StartTime

\* a capacity for the queue: the code gives none, and whatever it is the
\* backlog exceeds it once the consumer is that many frames behind
Capacity == 1

\* C27: the number of frames waiting in the capture queue never exceeds a
\* fixed capacity, however slowly the consumer reads.
C27_QueueBounded == Len(q) <= Capacity

\* C18: every capture terminates, also when the device stops delivering
\* frames: no capture loop waits for a frame forever.
C18_CaptureTerminates == <>(rpc = "done")

\* C19: the capture callback never blocks on the consumer: whenever a frame
\* is due the push can complete, whatever the backlog in the queue.
C19_PutNeverBlocks ==
    (rpc \notin {"idle", "done"} /\ FrameDue) => ENABLED Produce

\* a frame has been pushed onto a queue that already held one
C19_Witness == Len(q) >= 2

----------------------------------------------------------------------------
(* Properties of strip_wake (checked under SpecT) *)

\* C17: for any text the result of strip_wake contains none of the
\* configured wake phrases as a substring, and neither begins nor ends with
\* a space, comma, period, question mark or exclamation mark.
C17_NoWakeLeft ==
    tpc = "stripped" =>
        /\ \A i \in 1..Len(WakeWordsOf(tvariant)) : ~is_in(WakeWordsOf(tvariant)[i], tout)
        /\ tout # <<>> => (tout[1] \notin StripChars /\ tout[Len(tout)] \notin StripChars)

----------------------------------------------------------------------------
(* Properties of the controller's failure handling (checked under Spec and *)
(* SpecFair)                                                               *)

\* C13: when the planner call fails in any way (an exception, a transport
\* error, an HTTP error status, a timeout, content that is not JSON) the
\* controller goes on with the fallback plan; the failure never leaves the
\* loop.
C13_PlannerFailureFallsBack ==
    llm \in {"error", "not_json"} => (pc # "crashed" /\ plan = FALLBACK_PLAN)

\* C14: a failed dispatch is printed and swallowed: it raises nothing, the
\* plan is sent once and not again, and the controller goes on to listen
\* for the next wake; after every dispatch attempt, failed or not, the
\* controller is eventually listening for a wake again.
C14_DispatchFailureSwallowed ==
    /\ [](esp # "" => (pc = "sleep" /\ exc = "" /\ sends = 1))
    /\ [][pc = "sleep" => pc' = "wake"]_vars
    /\ (pc = "dispatch") ~> (pc = "wake")

\* a dispatch has failed and the controller is on its way back to listening
C14_Witness == esp = "failed" /\ pc = "sleep"

\* the step appends an accepted wake to the history
AcceptStep == Len(wakes') = Len(wakes) + 1 /\ wakes'[Len(wakes')].acc

\* C20: the timestamp of the last accepted wake changes only in a step that
\* accepts a wake, which sets it to the current time; a text without a wake
\* phrase, an empty text and a debounced match leave it as it is; it never
\* decreases.
C20_TimestampOnlyOnAccept ==
    [][/\ last_wake_ts' # last_wake_ts => AcceptStep
       /\ AcceptStep => last_wake_ts' = now'
       /\ last_wake_ts' >= last_wake_ts]_vars

\* a match was dropped after an accepted wake and the timestamp is still
\* that of the accepted wake
C20_Witness ==
    /\ Len(wakes) >= 2
    /\ wakes[Len(wakes) - 1].acc
    /\ ~wakes[Len(wakes)].acc
    /\ last_wake_ts = wakes[Len(wakes) - 1].ts
    /\ now > last_wake_ts

----------------------------------------------------------------------------
(* Properties of the command phase in the three programs (checked under    *)
(* SpecP)                                                                  *)

\* what is left of the wake utterance (bridge line 238)
Inline == StripWakeOf(prog, wake_text)

\* the text the command is made from: the inline command, the one captured
\* text, or the longer of the two texts of wake_loop's hear_command
CommandText ==
    IF heard = <<>> THEN Inline
    ELSE IF Len(heard) = 2 THEN longer_text(heard[1], heard[2])
    ELSE heard[1]

PlannedWithDefault ==
    pc = "plan" => (cmd # <<>> /\ (StripWakeOf(prog, CommandText) = <<>> => cmd = DEFAULT_CMD))

\* C15 (as claimed): after an accepted wake, a command text that is empty
\* after stripping is replaced by "wag your tail"; the controller does not
\* go back to wake listening with it, and the planner is never called with
\* an empty command.
C15_DefaultOnEmpty ==
    /\ PlannedWithDefault
    /\ pc = "wake" => heard = <<>>

\* C15 (amended): the same in bruno_stage3_bridge.py and
\* bruno_wake_loop_vosk.py; bruno_stage1_vosk_big_loop.py goes back to wake
\* listening when the captured command text is empty and uses the default
\* only when stripping a text that is not empty leaves nothing.
C15_DefaultOrRelisten ==
    /\ PlannedWithDefault
    /\ (pc = "wake" /\ heard # <<>>) => (prog = "big_loop" /\ heard = <<<<>>>>)
    /\ (prog = "big_loop" /\ pc = "plan") => heard[1] # <<>>

\* a captured command that strips to nothing is planned as the default
C15_Witness ==
    /\ pc = "plan"
    /\ heard # <<>>
    /\ heard[1] # <<>>
    /\ StripWakeOf(prog, CommandText) = <<>>
    /\ cmd = DEFAULT_CMD

\* C16 (as claimed): when what is left of the wake utterance has at least
\* two words the controller plans with that text and captures nothing
\* more; otherwise it captures exactly one more utterance before planning.
C16_InlineOrOneCapture ==
    pc = "plan" =>
        IF word_count(Inline) >= 2
        THEN heard = <<>> /\ cmd = final_cmd(Inline)
        ELSE Len(heard) = 1

\* C16 (amended): this is the rule of bruno_stage3_bridge.py.
\* bruno_wake_loop_vosk.py never uses the wake utterance: it always
\* captures a command, and captures a second time when the first text has
\* fewer than two words; bruno_stage1_vosk_big_loop.py always captures
\* exactly one command utterance.
C16_CapturesPerProgram ==
    pc = "plan" =>
        /\ prog = "bridge" =>
             IF word_count(Inline) >= 2
             THEN heard = <<>> /\ cmd = final_cmd(Inline)
             ELSE Len(heard) = 1
        /\ prog = "wake_loop" =>
             (heard # <<>> /\ Len(heard) = IF word_count(heard[1]) < 2 THEN 2 ELSE 1)
        /\ prog = "big_loop" => Len(heard) = 1

\* the bridge plans with the inline command, no further capture
C16_Witness ==
    /\ prog = "bridge"
    /\ pc = "plan"
    /\ word_count(Inline) >= 2
    /\ heard = <<>>
    /\ cmd = Inline

----------------------------------------------------------------------------
(* Properties of one iteration of the main loop in the programs that send   *)
(* the plan (checked under SpecP)                                           *)

\* the calls of one full iteration, in order
Cycle == <<"ask_llm", "validate_or_fix", "send_to_esp32">>
IsPrefix(a, b) == Len(a) <= Len(b) /\ SubSeq(b, 1, Len(a)) = a
\* the latest wake utterance that contained a wake word was accepted
LastAccepted == wakes # <<>> /\ wakes[Len(wakes)].acc
\* the iteration that an accepted wake started is over: main sleeps before
\* it listens again, or main has been left by an exception
IterationOver == pc \in {"sleep", "crashed"}

\* C28: in the bridge and in wake_loop an accepted wake is followed by one
\* planner call, then one validate_or_fix call, then one dispatch attempt,
\* in that order, before wake listening resumes; and nothing is called
\* unless the latest wake was accepted
C28_OneCyclePerWake ==
    prog # "big_loop" =>
        /\ IsPrefix(calls, Cycle)
        /\ IterationOver => calls = Cycle
        /\ calls # <<>> => LastAccepted

----------------------------------------------------------------------------
(* The four validate_or_fix functions compared (checked under SpecV)        *)

\* C29: the validate_or_fix functions of the four programs agree: on every
\* input plan each of them gives the result the applied one gave
C29_VariantsAgree ==
    vpc \in {"once", "twice"} => \A v \in Variants : Validate(v, vin) = vout

----------------------------------------------------------------------------
(* strip_wake applied twice, as main does to an inline command (checked     *)
(* under SpecT)                                                             *)

\* C30: strip_wake of the bridge is idempotent: stripping the stripped text
\* again gives the same text, in particular when the stripped text has at
\* least two words, which is when main takes it as the inline command and
\* strips it again
C30_StripWakeIdempotent ==
    (tpc = "again" /\ tvariant = "bridge") => tout2 = tout

====
